---- MODULE Spec2Model ----
(***************************************************************************)
(* The TAC archive packer of TanukiSoft/arctac.py (class TacPacker).       *)
(*                                                                         *)
(* 64-bit and 48-bit quantities are little-endian sequences of byte limbs, *)
(* exactly the bytes struct.pack('<Q', ...) writes; a path is the sequence *)
(* of its code points.  zlib and Blowfish are library code: a zlib stream  *)
(* is the record [src, len] (the stream that inflates to src and occupies  *)
(* len bytes), its length one of ZlibLens, and a ciphertext keeps the      *)
(* length of its padded plaintext.                                         *)
(***************************************************************************)
EXTENDS Integers, Sequences, FiniteSets, TLC

\* ------------------------------------------------------------- bounds
MaxFiles == 2
MaxPathLen == 2

\* ---------------------------------------------------------- constants
HashMultiplier == 104729
HeaderLen == 44
BlockLen == 8
BucketRecLen == 8
EntryRecLen == 24

\* ------------------------------------------------- byte-limb integers
\* The k low bytes of n, least significant first (n & (256^k - 1)).
RECURSIVE LimbsOf(_, _)
LimbsOf(n, k) == IF k = 0 THEN <<>> ELSE <<n % 256>> \o LimbsOf(n \div 256, k - 1)

\* 0 <= n < 256^k, the range struct.pack accepts for an unsigned field of
\* k bytes; computed by shifting so that 256^k itself is never formed.
RECURSIVE FitsUnsigned(_, _)
FitsUnsigned(n, k) == IF k = 0 THEN n = 0 ELSE FitsUnsigned(n \div 256, k - 1)

\* What stands for the struct.error struct.pack raises; no byte string.
StructError == <<-1>>

\* struct.pack('<..', ..) of unsigned fields <<value, bytes>>: their
\* little-endian bytes, or struct.error when one value is out of range.
PackFields(fields) ==
    IF \E i \in 1..Len(fields) : ~FitsUnsigned(fields[i][1], fields[i][2])
    THEN StructError
    ELSE LET Bytes[i \in 0..Len(fields)] ==
                 IF i = 0 THEN <<>>
                 ELSE Bytes[i - 1] \o LimbsOf(fields[i][1], fields[i][2])
         IN Bytes[Len(fields)]

Zero64 == <<0, 0, 0, 0, 0, 0, 0, 0>>

LimbAt(x, i) == IF i <= Len(x) THEN x[i] ELSE 0

\* x < y for two limb sequences of one length, most significant limb last
RECURSIVE LimbsLess(_, _)
LimbsLess(x, y) ==
    IF Len(x) = 0 THEN FALSE
    ELSE IF x[Len(x)] # y[Len(y)] THEN x[Len(x)] < y[Len(y)]
    ELSE LimbsLess(SubSeq(x, 1, Len(x) - 1), SubSeq(y, 1, Len(y) - 1))

RECURSIVE Flatten(_)
Flatten(ss) == IF Len(ss) = 0 THEN <<>> ELSE Head(ss) \o Flatten(Tail(ss))

\* ------------------------------------------------------- Path Hasher
SlashCode == 47
BackslashCode == 92

ReplaceBackslash(c) == IF c = BackslashCode THEN SlashCode ELSE c

\* str.upper() of one character (Unicode 14.0, CPython 3.11).  A run
\* <<first, last, step, delta>> holds the code points first, first + step,
\* .., last whose upper case is the one code point delta further on.
UpperRuns ==
    {
     <<97, 122, 1, -32>>, <<181, 181, 1, 743>>, <<224, 246, 1, -32>>,
     <<248, 254, 1, -32>>, <<255, 255, 1, 121>>, <<257, 303, 2, -1>>,
     <<305, 305, 1, -232>>, <<307, 311, 2, -1>>, <<314, 328, 2, -1>>,
     <<331, 375, 2, -1>>, <<378, 382, 2, -1>>, <<383, 383, 1, -300>>,
     <<384, 384, 1, 195>>, <<387, 389, 2, -1>>, <<392, 392, 1, -1>>,
     <<396, 396, 1, -1>>, <<402, 402, 1, -1>>, <<405, 405, 1, 97>>,
     <<409, 409, 1, -1>>, <<410, 410, 1, 163>>, <<414, 414, 1, 130>>,
     <<417, 421, 2, -1>>, <<424, 424, 1, -1>>, <<429, 429, 1, -1>>,
     <<432, 432, 1, -1>>, <<436, 438, 2, -1>>, <<441, 441, 1, -1>>,
     <<445, 445, 1, -1>>, <<447, 447, 1, 56>>, <<453, 453, 1, -1>>,
     <<454, 454, 1, -2>>, <<456, 456, 1, -1>>, <<457, 457, 1, -2>>,
     <<459, 459, 1, -1>>, <<460, 460, 1, -2>>, <<462, 476, 2, -1>>,
     <<477, 477, 1, -79>>, <<479, 495, 2, -1>>, <<498, 498, 1, -1>>,
     <<499, 499, 1, -2>>, <<501, 501, 1, -1>>, <<505, 543, 2, -1>>,
     <<547, 563, 2, -1>>, <<572, 572, 1, -1>>, <<575, 576, 1, 10815>>,
     <<578, 578, 1, -1>>, <<583, 591, 2, -1>>, <<592, 592, 1, 10783>>,
     <<593, 593, 1, 10780>>, <<594, 594, 1, 10782>>, <<595, 595, 1, -210>>,
     <<596, 596, 1, -206>>, <<598, 599, 1, -205>>, <<601, 601, 1, -202>>,
     <<603, 603, 1, -203>>, <<604, 604, 1, 42319>>, <<608, 608, 1, -205>>,
     <<609, 609, 1, 42315>>, <<611, 611, 1, -207>>, <<613, 613, 1, 42280>>,
     <<614, 614, 1, 42308>>, <<616, 616, 1, -209>>, <<617, 617, 1, -211>>,
     <<618, 618, 1, 42308>>, <<619, 619, 1, 10743>>,
     <<620, 620, 1, 42305>>, <<623, 623, 1, -211>>, <<625, 625, 1, 10749>>,
     <<626, 626, 1, -213>>, <<629, 629, 1, -214>>, <<637, 637, 1, 10727>>,
     <<640, 640, 1, -218>>, <<642, 642, 1, 42307>>, <<643, 643, 1, -218>>,
     <<647, 647, 1, 42282>>, <<648, 648, 1, -218>>, <<649, 649, 1, -69>>,
     <<650, 651, 1, -217>>, <<652, 652, 1, -71>>, <<658, 658, 1, -219>>,
     <<669, 669, 1, 42261>>, <<670, 670, 1, 42258>>, <<837, 837, 1, 84>>,
     <<881, 883, 2, -1>>, <<887, 887, 1, -1>>, <<891, 893, 1, 130>>,
     <<940, 940, 1, -38>>, <<941, 943, 1, -37>>, <<945, 961, 1, -32>>,
     <<962, 962, 1, -31>>, <<963, 971, 1, -32>>, <<972, 972, 1, -64>>,
     <<973, 974, 1, -63>>, <<976, 976, 1, -62>>, <<977, 977, 1, -57>>,
     <<981, 981, 1, -47>>, <<982, 982, 1, -54>>, <<983, 983, 1, -8>>,
     <<985, 1007, 2, -1>>, <<1008, 1008, 1, -86>>, <<1009, 1009, 1, -80>>,
     <<1010, 1010, 1, 7>>, <<1011, 1011, 1, -116>>, <<1013, 1013, 1, -96>>,
     <<1016, 1016, 1, -1>>, <<1019, 1019, 1, -1>>, <<1072, 1103, 1, -32>>,
     <<1104, 1119, 1, -80>>, <<1121, 1153, 2, -1>>, <<1163, 1215, 2, -1>>,
     <<1218, 1230, 2, -1>>, <<1231, 1231, 1, -15>>, <<1233, 1327, 2, -1>>,
     <<1377, 1414, 1, -48>>, <<4304, 4346, 1, 3008>>,
     <<4349, 4351, 1, 3008>>, <<5112, 5117, 1, -8>>,
     <<7296, 7296, 1, -6254>>, <<7297, 7297, 1, -6253>>,
     <<7298, 7298, 1, -6244>>, <<7299, 7300, 1, -6242>>,
     <<7301, 7301, 1, -6243>>, <<7302, 7302, 1, -6236>>,
     <<7303, 7303, 1, -6181>>, <<7304, 7304, 1, 35266>>,
     <<7545, 7545, 1, 35332>>, <<7549, 7549, 1, 3814>>,
     <<7566, 7566, 1, 35384>>, <<7681, 7829, 2, -1>>,
     <<7835, 7835, 1, -59>>, <<7841, 7935, 2, -1>>, <<7936, 7943, 1, 8>>,
     <<7952, 7957, 1, 8>>, <<7968, 7975, 1, 8>>, <<7984, 7991, 1, 8>>,
     <<8000, 8005, 1, 8>>, <<8017, 8023, 2, 8>>, <<8032, 8039, 1, 8>>,
     <<8048, 8049, 1, 74>>, <<8050, 8053, 1, 86>>, <<8054, 8055, 1, 100>>,
     <<8056, 8057, 1, 128>>, <<8058, 8059, 1, 112>>,
     <<8060, 8061, 1, 126>>, <<8112, 8113, 1, 8>>,
     <<8126, 8126, 1, -7205>>, <<8144, 8145, 1, 8>>, <<8160, 8161, 1, 8>>,
     <<8165, 8165, 1, 7>>, <<8526, 8526, 1, -28>>, <<8560, 8575, 1, -16>>,
     <<8580, 8580, 1, -1>>, <<9424, 9449, 1, -26>>,
     <<11312, 11359, 1, -48>>, <<11361, 11361, 1, -1>>,
     <<11365, 11365, 1, -10795>>, <<11366, 11366, 1, -10792>>,
     <<11368, 11372, 2, -1>>, <<11379, 11379, 1, -1>>,
     <<11382, 11382, 1, -1>>, <<11393, 11491, 2, -1>>,
     <<11500, 11502, 2, -1>>, <<11507, 11507, 1, -1>>,
     <<11520, 11557, 1, -7264>>, <<11559, 11559, 1, -7264>>,
     <<11565, 11565, 1, -7264>>, <<42561, 42605, 2, -1>>,
     <<42625, 42651, 2, -1>>, <<42787, 42799, 2, -1>>,
     <<42803, 42863, 2, -1>>, <<42874, 42876, 2, -1>>,
     <<42879, 42887, 2, -1>>, <<42892, 42892, 1, -1>>,
     <<42897, 42899, 2, -1>>, <<42900, 42900, 1, 48>>,
     <<42903, 42921, 2, -1>>, <<42933, 42947, 2, -1>>,
     <<42952, 42954, 2, -1>>, <<42961, 42961, 1, -1>>,
     <<42967, 42969, 2, -1>>, <<42998, 42998, 1, -1>>,
     <<43859, 43859, 1, -928>>, <<43888, 43967, 1, -38864>>,
     <<65345, 65370, 1, -32>>, <<66600, 66639, 1, -40>>,
     <<66776, 66811, 1, -40>>, <<66967, 67003, 2, -39>>,
     <<66968, 66976, 2, -39>>, <<66980, 66992, 2, -39>>,
     <<66996, 67000, 2, -39>>, <<67004, 67004, 1, -39>>,
     <<68800, 68850, 1, -64>>, <<71872, 71903, 1, -32>>,
     <<93792, 93823, 1, -32>>, <<125218, 125251, 1, -34>>
    }

\* the code points whose upper case is more than one code point
UpperSpecial ==
    223 :> <<83, 83>> @@
    329 :> <<700, 78>> @@
    496 :> <<74, 780>> @@
    912 :> <<921, 776, 769>> @@
    944 :> <<933, 776, 769>> @@
    1415 :> <<1333, 1362>> @@
    7830 :> <<72, 817>> @@
    7831 :> <<84, 776>> @@
    7832 :> <<87, 778>> @@
    7833 :> <<89, 778>> @@
    7834 :> <<65, 702>> @@
    8016 :> <<933, 787>> @@
    8018 :> <<933, 787, 768>> @@
    8020 :> <<933, 787, 769>> @@
    8022 :> <<933, 787, 834>> @@
    8064 :> <<7944, 921>> @@
    8065 :> <<7945, 921>> @@
    8066 :> <<7946, 921>> @@
    8067 :> <<7947, 921>> @@
    8068 :> <<7948, 921>> @@
    8069 :> <<7949, 921>> @@
    8070 :> <<7950, 921>> @@
    8071 :> <<7951, 921>> @@
    8072 :> <<7944, 921>> @@
    8073 :> <<7945, 921>> @@
    8074 :> <<7946, 921>> @@
    8075 :> <<7947, 921>> @@
    8076 :> <<7948, 921>> @@
    8077 :> <<7949, 921>> @@
    8078 :> <<7950, 921>> @@
    8079 :> <<7951, 921>> @@
    8080 :> <<7976, 921>> @@
    8081 :> <<7977, 921>> @@
    8082 :> <<7978, 921>> @@
    8083 :> <<7979, 921>> @@
    8084 :> <<7980, 921>> @@
    8085 :> <<7981, 921>> @@
    8086 :> <<7982, 921>> @@
    8087 :> <<7983, 921>> @@
    8088 :> <<7976, 921>> @@
    8089 :> <<7977, 921>> @@
    8090 :> <<7978, 921>> @@
    8091 :> <<7979, 921>> @@
    8092 :> <<7980, 921>> @@
    8093 :> <<7981, 921>> @@
    8094 :> <<7982, 921>> @@
    8095 :> <<7983, 921>> @@
    8096 :> <<8040, 921>> @@
    8097 :> <<8041, 921>> @@
    8098 :> <<8042, 921>> @@
    8099 :> <<8043, 921>> @@
    8100 :> <<8044, 921>> @@
    8101 :> <<8045, 921>> @@
    8102 :> <<8046, 921>> @@
    8103 :> <<8047, 921>> @@
    8104 :> <<8040, 921>> @@
    8105 :> <<8041, 921>> @@
    8106 :> <<8042, 921>> @@
    8107 :> <<8043, 921>> @@
    8108 :> <<8044, 921>> @@
    8109 :> <<8045, 921>> @@
    8110 :> <<8046, 921>> @@
    8111 :> <<8047, 921>> @@
    8114 :> <<8122, 921>> @@
    8115 :> <<913, 921>> @@
    8116 :> <<902, 921>> @@
    8118 :> <<913, 834>> @@
    8119 :> <<913, 834, 921>> @@
    8124 :> <<913, 921>> @@
    8130 :> <<8138, 921>> @@
    8131 :> <<919, 921>> @@
    8132 :> <<905, 921>> @@
    8134 :> <<919, 834>> @@
    8135 :> <<919, 834, 921>> @@
    8140 :> <<919, 921>> @@
    8146 :> <<921, 776, 768>> @@
    8147 :> <<921, 776, 769>> @@
    8150 :> <<921, 834>> @@
    8151 :> <<921, 776, 834>> @@
    8162 :> <<933, 776, 768>> @@
    8163 :> <<933, 776, 769>> @@
    8164 :> <<929, 787>> @@
    8166 :> <<933, 834>> @@
    8167 :> <<933, 776, 834>> @@
    8178 :> <<8186, 921>> @@
    8179 :> <<937, 921>> @@
    8180 :> <<911, 921>> @@
    8182 :> <<937, 834>> @@
    8183 :> <<937, 834, 921>> @@
    8188 :> <<937, 921>> @@
    64256 :> <<70, 70>> @@
    64257 :> <<70, 73>> @@
    64258 :> <<70, 76>> @@
    64259 :> <<70, 70, 73>> @@
    64260 :> <<70, 70, 76>> @@
    64261 :> <<83, 84>> @@
    64262 :> <<83, 84>> @@
    64275 :> <<1348, 1350>> @@
    64276 :> <<1348, 1333>> @@
    64277 :> <<1348, 1339>> @@
    64278 :> <<1358, 1350>> @@
    64279 :> <<1348, 1341>>

UpperNoop(c) == <<c>>
Upper(c) ==
    IF c \in DOMAIN UpperSpecial THEN UpperSpecial[c]
    ELSE IF \E r \in UpperRuns : c >= r[1] /\ c <= r[2] /\ (c - r[1]) % r[3] = 0
         THEN <<c + (CHOOSE r \in UpperRuns :
                        c >= r[1] /\ c <= r[2] /\ (c - r[1]) % r[3] = 0)[4]>>
    ELSE <<c>>

\* s.replace('\\', '/').upper(): the upper case of a character can be
\* several characters, so the result can be longer than s
NormalizePath(s) == Flatten([i \in 1..Len(s) |-> Upper(ReplaceBackslash(s[i]))])

\* (char_code + 0x19919 * hash_val + seed) & 0xFFFFFFFFFFFFFFFF, limb by limb
RECURSIVE HashStepFrom(_, _, _, _, _)
HashStepFrom(h, c, seed, i, carry) ==
    IF i > 8 THEN <<>>
    ELSE LET t == LimbAt(c, i) + HashMultiplier * h[i] + LimbAt(seed, i) + carry
         IN <<t % 256>> \o HashStepFrom(h, c, seed, i + 1, t \div 256)

HashStep(h, char_code, seed) == HashStepFrom(h, LimbsOf(char_code, 4), seed, 1, 0)

RECURSIVE HashLoop(_, _, _, _)
HashLoop(s, seed, i, hash_val) ==
    IF i > Len(s) THEN hash_val
    ELSE HashLoop(s, seed, i + 1, HashStep(hash_val, s[i], seed))

hash_from_ascii_string(s, seed) == HashLoop(NormalizePath(s), seed, 1, Zero64)


\* ------------------------------------------------------ library model
\* len(zlib.compress(data, 9)) as zlib 1.2.13 returns it, for the file
\* contents and the serialized indexes of the trees of at most two files.
ZlibMeasured ==
    <<>> :> 8 @@
    <<104>> :> 9 @@
    <<0, 0, 1, 0, 0, 0, 0, 0, 64, 0, 0, 0, 1, 0, 0, 0, 1, 0, 0, 0, 0, 0, 0, 0, 0, 0, 0, 0, 8, 0, 0, 0>> :> 22 @@
    <<0, 0, 1, 0, 0, 0, 0, 0, 64, 0, 0, 0, 1, 0, 0, 0, 1, 0, 0, 0, 0, 0, 0, 0, 68, 0, 0, 0, 8, 0, 0, 0>> :> 25 @@
    <<0, 0, 1, 0, 0, 0, 0, 0, 64, 0, 0, 0, 1, 0, 0, 0, 1, 0, 0, 0, 1, 0, 0, 0, 0, 0, 0, 0, 9, 0, 0, 0>> :> 22 @@
    <<0, 0, 1, 0, 0, 0, 0, 0, 64, 0, 0, 0, 1, 0, 0, 0, 1, 0, 0, 0, 1, 0, 0, 0, 68, 0, 0, 0, 9, 0, 0, 0>> :> 23 @@
    <<0, 0, 1, 0, 0, 0, 0, 0, 65, 0, 0, 0, 0, 0, 0, 0, 1, 0, 0, 0, 0, 0, 0, 0, 0, 0, 0, 0, 8, 0, 0, 0>> :> 23 @@
    <<0, 0, 1, 0, 0, 0, 0, 0, 65, 0, 0, 0, 0, 0, 0, 0, 1, 0, 0, 0, 0, 0, 0, 0, 68, 0, 0, 0, 8, 0, 0, 0>> :> 24 @@
    <<0, 0, 1, 0, 0, 0, 0, 0, 65, 0, 0, 0, 0, 0, 0, 0, 1, 0, 0, 0, 1, 0, 0, 0, 0, 0, 0, 0, 9, 0, 0, 0>> :> 23 @@
    <<0, 0, 1, 0, 0, 0, 0, 0, 65, 0, 0, 0, 0, 0, 0, 0, 1, 0, 0, 0, 1, 0, 0, 0, 68, 0, 0, 0, 9, 0, 0, 0>> :> 24 @@
    <<0, 0, 1, 0, 0, 0, 0, 0, 124, 44, 213, 245, 211, 0, 0, 0, 1, 0, 0, 0, 0, 0, 0, 0, 0, 0, 0, 0, 8, 0, 0, 0>> :> 26 @@
    <<0, 0, 1, 0, 0, 0, 0, 0, 124, 44, 213, 245, 211, 0, 0, 0, 1, 0, 0, 0, 0, 0, 0, 0, 76, 0, 0, 0, 8, 0, 0, 0>> :> 29 @@
    <<0, 0, 1, 0, 0, 0, 0, 0, 124, 44, 213, 245, 211, 0, 0, 0, 1, 0, 0, 0, 1, 0, 0, 0, 0, 0, 0, 0, 9, 0, 0, 0>> :> 27 @@
    <<0, 0, 1, 0, 0, 0, 0, 0, 124, 44, 213, 245, 211, 0, 0, 0, 1, 0, 0, 0, 1, 0, 0, 0, 76, 0, 0, 0, 9, 0, 0, 0>> :> 28 @@
    <<194, 141, 1, 0, 0, 0, 0, 0, 241, 174, 18, 104, 92, 126, 0, 0, 1, 0, 0, 0, 0, 0, 0, 0, 0, 0, 0, 0, 8, 0, 0, 0>> :> 27 @@
    <<194, 141, 1, 0, 0, 0, 0, 0, 241, 174, 18, 104, 92, 126, 0, 0, 1, 0, 0, 0, 0, 0, 0, 0, 76, 0, 0, 0, 8, 0, 0, 0>> :> 30 @@
    <<194, 141, 1, 0, 0, 0, 0, 0, 241, 174, 18, 104, 92, 126, 0, 0, 1, 0, 0, 0, 1, 0, 0, 0, 0, 0, 0, 0, 9, 0, 0, 0>> :> 30 @@
    <<194, 141, 1, 0, 0, 0, 0, 0, 241, 174, 18, 104, 92, 126, 0, 0, 1, 0, 0, 0, 1, 0, 0, 0, 76, 0, 0, 0, 9, 0, 0, 0>> :> 30 @@
    <<0, 0, 2, 0, 0, 0, 0, 0, 64, 0, 0, 0, 1, 0, 0, 0, 1, 0, 0, 0, 0, 0, 0, 0, 0, 0, 0, 0, 8, 0, 0, 0, 64, 0, 0, 0, 1, 0, 0, 0, 1, 0, 0, 0, 0, 0, 0, 0, 8, 0, 0, 0, 8, 0, 0, 0>> :> 25 @@
    <<0, 0, 2, 0, 0, 0, 0, 0, 64, 0, 0, 0, 1, 0, 0, 0, 1, 0, 0, 0, 0, 0, 0, 0, 0, 0, 0, 0, 8, 0, 0, 0, 64, 0, 0, 0, 1, 0, 0, 0, 1, 0, 0, 0, 1, 0, 0, 0, 8, 0, 0, 0, 9, 0, 0, 0>> :> 28 @@
    <<0, 0, 2, 0, 0, 0, 0, 0, 64, 0, 0, 0, 1, 0, 0, 0, 1, 0, 0, 0, 0, 0, 0, 0, 76, 0, 0, 0, 8, 0, 0, 0, 64, 0, 0, 0, 1, 0, 0, 0, 1, 0, 0, 0, 0, 0, 0, 0, 84, 0, 0, 0, 8, 0, 0, 0>> :> 28 @@
    <<0, 0, 2, 0, 0, 0, 0, 0, 64, 0, 0, 0, 1, 0, 0, 0, 1, 0, 0, 0, 0, 0, 0, 0, 76, 0, 0, 0, 8, 0, 0, 0, 64, 0, 0, 0, 1, 0, 0, 0, 1, 0, 0, 0, 1, 0, 0, 0, 84, 0, 0, 0, 9, 0, 0, 0>> :> 32 @@
    <<0, 0, 2, 0, 0, 0, 0, 0, 64, 0, 0, 0, 1, 0, 0, 0, 1, 0, 0, 0, 1, 0, 0, 0, 0, 0, 0, 0, 9, 0, 0, 0, 64, 0, 0, 0, 1, 0, 0, 0, 1, 0, 0, 0, 0, 0, 0, 0, 9, 0, 0, 0, 8, 0, 0, 0>> :> 27 @@
    <<0, 0, 2, 0, 0, 0, 0, 0, 64, 0, 0, 0, 1, 0, 0, 0, 1, 0, 0, 0, 1, 0, 0, 0, 0, 0, 0, 0, 9, 0, 0, 0, 64, 0, 0, 0, 1, 0, 0, 0, 1, 0, 0, 0, 1, 0, 0, 0, 9, 0, 0, 0, 9, 0, 0, 0>> :> 25 @@
    <<0, 0, 2, 0, 0, 0, 0, 0, 64, 0, 0, 0, 1, 0, 0, 0, 1, 0, 0, 0, 1, 0, 0, 0, 76, 0, 0, 0, 9, 0, 0, 0, 64, 0, 0, 0, 1, 0, 0, 0, 1, 0, 0, 0, 0, 0, 0, 0, 85, 0, 0, 0, 8, 0, 0, 0>> :> 30 @@
    <<0, 0, 2, 0, 0, 0, 0, 0, 64, 0, 0, 0, 1, 0, 0, 0, 1, 0, 0, 0, 1, 0, 0, 0, 76, 0, 0, 0, 9, 0, 0, 0, 64, 0, 0, 0, 1, 0, 0, 0, 1, 0, 0, 0, 1, 0, 0, 0, 85, 0, 0, 0, 9, 0, 0, 0>> :> 27 @@
    <<0, 0, 2, 0, 0, 0, 0, 0, 65, 0, 0, 0, 0, 0, 0, 0, 1, 0, 0, 0, 0, 0, 0, 0, 0, 0, 0, 0, 8, 0, 0, 0, 65, 0, 0, 0, 0, 0, 0, 0, 1, 0, 0, 0, 0, 0, 0, 0, 8, 0, 0, 0, 8, 0, 0, 0>> :> 26 @@
    <<0, 0, 2, 0, 0, 0, 0, 0, 65, 0, 0, 0, 0, 0, 0, 0, 1, 0, 0, 0, 0, 0, 0, 0, 0, 0, 0, 0, 8, 0, 0, 0, 65, 0, 0, 0, 0, 0, 0, 0, 1, 0, 0, 0, 1, 0, 0, 0, 8, 0, 0, 0, 9, 0, 0, 0>> :> 29 @@
    <<0, 0, 2, 0, 0, 0, 0, 0, 65, 0, 0, 0, 0, 0, 0, 0, 1, 0, 0, 0, 0, 0, 0, 0, 0, 0, 0, 0, 8, 0, 0, 0, 124, 44, 213, 245, 211, 0, 0, 0, 1, 0, 0, 0, 0, 0, 0, 0, 8, 0, 0, 0, 8, 0, 0, 0>> :> 33 @@
    <<0, 0, 2, 0, 0, 0, 0, 0, 65, 0, 0, 0, 0, 0, 0, 0, 1, 0, 0, 0, 0, 0, 0, 0, 0, 0, 0, 0, 8, 0, 0, 0, 124, 44, 213, 245, 211, 0, 0, 0, 1, 0, 0, 0, 1, 0, 0, 0, 8, 0, 0, 0, 9, 0, 0, 0>> :> 35 @@
    <<0, 0, 2, 0, 0, 0, 0, 0, 65, 0, 0, 0, 0, 0, 0, 0, 1, 0, 0, 0, 0, 0, 0, 0, 8, 0, 0, 0, 8, 0, 0, 0, 124, 44, 213, 245, 211, 0, 0, 0, 1, 0, 0, 0, 0, 0, 0, 0, 0, 0, 0, 0, 8, 0, 0, 0>> :> 31 @@
    <<0, 0, 2, 0, 0, 0, 0, 0, 65, 0, 0, 0, 0, 0, 0, 0, 1, 0, 0, 0, 0, 0, 0, 0, 9, 0, 0, 0, 8, 0, 0, 0, 124, 44, 213, 245, 211, 0, 0, 0, 1, 0, 0, 0, 1, 0, 0, 0, 0, 0, 0, 0, 9, 0, 0, 0>> :> 34 @@
    <<0, 0, 2, 0, 0, 0, 0, 0, 65, 0, 0, 0, 0, 0, 0, 0, 1, 0, 0, 0, 0, 0, 0, 0, 76, 0, 0, 0, 8, 0, 0, 0, 65, 0, 0, 0, 0, 0, 0, 0, 1, 0, 0, 0, 0, 0, 0, 0, 84, 0, 0, 0, 8, 0, 0, 0>> :> 28 @@
    <<0, 0, 2, 0, 0, 0, 0, 0, 65, 0, 0, 0, 0, 0, 0, 0, 1, 0, 0, 0, 0, 0, 0, 0, 76, 0, 0, 0, 8, 0, 0, 0, 65, 0, 0, 0, 0, 0, 0, 0, 1, 0, 0, 0, 1, 0, 0, 0, 84, 0, 0, 0, 9, 0, 0, 0>> :> 31 @@
    <<0, 0, 2, 0, 0, 0, 0, 0, 65, 0, 0, 0, 0, 0, 0, 0, 1, 0, 0, 0, 0, 0, 0, 0, 76, 0, 0, 0, 8, 0, 0, 0, 124, 44, 213, 245, 211, 0, 0, 0, 1, 0, 0, 0, 0, 0, 0, 0, 84, 0, 0, 0, 8, 0, 0, 0>> :> 35 @@
    <<0, 0, 2, 0, 0, 0, 0, 0, 65, 0, 0, 0, 0, 0, 0, 0, 1, 0, 0, 0, 0, 0, 0, 0, 84, 0, 0, 0, 8, 0, 0, 0, 124, 44, 213, 245, 211, 0, 0, 0, 1, 0, 0, 0, 0, 0, 0, 0, 92, 0, 0, 0, 8, 0, 0, 0>> :> 35 @@
    <<0, 0, 2, 0, 0, 0, 0, 0, 65, 0, 0, 0, 0, 0, 0, 0, 1, 0, 0, 0, 0, 0, 0, 0, 84, 0, 0, 0, 8, 0, 0, 0, 124, 44, 213, 245, 211, 0, 0, 0, 1, 0, 0, 0, 1, 0, 0, 0, 92, 0, 0, 0, 9, 0, 0, 0>> :> 38 @@
    <<0, 0, 2, 0, 0, 0, 0, 0, 65, 0, 0, 0, 0, 0, 0, 0, 1, 0, 0, 0, 1, 0, 0, 0, 0, 0, 0, 0, 9, 0, 0, 0, 65, 0, 0, 0, 0, 0, 0, 0, 1, 0, 0, 0, 0, 0, 0, 0, 9, 0, 0, 0, 8, 0, 0, 0>> :> 28 @@
    <<0, 0, 2, 0, 0, 0, 0, 0, 65, 0, 0, 0, 0, 0, 0, 0, 1, 0, 0, 0, 1, 0, 0, 0, 0, 0, 0, 0, 9, 0, 0, 0, 65, 0, 0, 0, 0, 0, 0, 0, 1, 0, 0, 0, 1, 0, 0, 0, 9, 0, 0, 0, 9, 0, 0, 0>> :> 26 @@
    <<0, 0, 2, 0, 0, 0, 0, 0, 65, 0, 0, 0, 0, 0, 0, 0, 1, 0, 0, 0, 1, 0, 0, 0, 0, 0, 0, 0, 9, 0, 0, 0, 124, 44, 213, 245, 211, 0, 0, 0, 1, 0, 0, 0, 0, 0, 0, 0, 9, 0, 0, 0, 8, 0, 0, 0>> :> 33 @@
    <<0, 0, 2, 0, 0, 0, 0, 0, 65, 0, 0, 0, 0, 0, 0, 0, 1, 0, 0, 0, 1, 0, 0, 0, 0, 0, 0, 0, 9, 0, 0, 0, 124, 44, 213, 245, 211, 0, 0, 0, 1, 0, 0, 0, 1, 0, 0, 0, 9, 0, 0, 0, 9, 0, 0, 0>> :> 33 @@
    <<0, 0, 2, 0, 0, 0, 0, 0, 65, 0, 0, 0, 0, 0, 0, 0, 1, 0, 0, 0, 1, 0, 0, 0, 8, 0, 0, 0, 9, 0, 0, 0, 124, 44, 213, 245, 211, 0, 0, 0, 1, 0, 0, 0, 0, 0, 0, 0, 0, 0, 0, 0, 8, 0, 0, 0>> :> 35 @@
    <<0, 0, 2, 0, 0, 0, 0, 0, 65, 0, 0, 0, 0, 0, 0, 0, 1, 0, 0, 0, 1, 0, 0, 0, 9, 0, 0, 0, 9, 0, 0, 0, 124, 44, 213, 245, 211, 0, 0, 0, 1, 0, 0, 0, 1, 0, 0, 0, 0, 0, 0, 0, 9, 0, 0, 0>> :> 32 @@
    <<0, 0, 2, 0, 0, 0, 0, 0, 65, 0, 0, 0, 0, 0, 0, 0, 1, 0, 0, 0, 1, 0, 0, 0, 76, 0, 0, 0, 9, 0, 0, 0, 65, 0, 0, 0, 0, 0, 0, 0, 1, 0, 0, 0, 0, 0, 0, 0, 85, 0, 0, 0, 8, 0, 0, 0>> :> 31 @@
    <<0, 0, 2, 0, 0, 0, 0, 0, 65, 0, 0, 0, 0, 0, 0, 0, 1, 0, 0, 0, 1, 0, 0, 0, 76, 0, 0, 0, 9, 0, 0, 0, 65, 0, 0, 0, 0, 0, 0, 0, 1, 0, 0, 0, 1, 0, 0, 0, 85, 0, 0, 0, 9, 0, 0, 0>> :> 28 @@
    <<0, 0, 2, 0, 0, 0, 0, 0, 65, 0, 0, 0, 0, 0, 0, 0, 1, 0, 0, 0, 1, 0, 0, 0, 76, 0, 0, 0, 9, 0, 0, 0, 124, 44, 213, 245, 211, 0, 0, 0, 1, 0, 0, 0, 1, 0, 0, 0, 85, 0, 0, 0, 9, 0, 0, 0>> :> 34 @@
    <<0, 0, 2, 0, 0, 0, 0, 0, 65, 0, 0, 0, 0, 0, 0, 0, 1, 0, 0, 0, 1, 0, 0, 0, 84, 0, 0, 0, 9, 0, 0, 0, 124, 44, 213, 245, 211, 0, 0, 0, 1, 0, 0, 0, 0, 0, 0, 0, 93, 0, 0, 0, 8, 0, 0, 0>> :> 38 @@
    <<0, 0, 2, 0, 0, 0, 0, 0, 65, 0, 0, 0, 0, 0, 0, 0, 1, 0, 0, 0, 1, 0, 0, 0, 84, 0, 0, 0, 9, 0, 0, 0, 124, 44, 213, 245, 211, 0, 0, 0, 1, 0, 0, 0, 1, 0, 0, 0, 93, 0, 0, 0, 9, 0, 0, 0>> :> 34 @@
    <<0, 0, 1, 0, 0, 0, 0, 0, 194, 141, 1, 0, 1, 0, 0, 0, 64, 0, 0, 0, 1, 0, 0, 0, 1, 0, 0, 0, 0, 0, 0, 0, 0, 0, 0, 0, 8, 0, 0, 0, 241, 174, 18, 104, 92, 126, 0, 0, 1, 0, 0, 0, 0, 0, 0, 0, 8, 0, 0, 0, 8, 0, 0, 0>> :> 38 @@
    <<0, 0, 1, 0, 0, 0, 0, 0, 194, 141, 1, 0, 1, 0, 0, 0, 64, 0, 0, 0, 1, 0, 0, 0, 1, 0, 0, 0, 0, 0, 0, 0, 0, 0, 0, 0, 8, 0, 0, 0, 241, 174, 18, 104, 92, 126, 0, 0, 1, 0, 0, 0, 1, 0, 0, 0, 8, 0, 0, 0, 9, 0, 0, 0>> :> 40 @@
    <<0, 0, 1, 0, 0, 0, 0, 0, 194, 141, 1, 0, 1, 0, 0, 0, 64, 0, 0, 0, 1, 0, 0, 0, 1, 0, 0, 0, 0, 0, 0, 0, 8, 0, 0, 0, 8, 0, 0, 0, 241, 174, 18, 104, 92, 126, 0, 0, 1, 0, 0, 0, 0, 0, 0, 0, 0, 0, 0, 0, 8, 0, 0, 0>> :> 37 @@
    <<0, 0, 1, 0, 0, 0, 0, 0, 194, 141, 1, 0, 1, 0, 0, 0, 64, 0, 0, 0, 1, 0, 0, 0, 1, 0, 0, 0, 0, 0, 0, 0, 9, 0, 0, 0, 8, 0, 0, 0, 241, 174, 18, 104, 92, 126, 0, 0, 1, 0, 0, 0, 1, 0, 0, 0, 0, 0, 0, 0, 9, 0, 0, 0>> :> 38 @@
    <<0, 0, 1, 0, 0, 0, 0, 0, 194, 141, 1, 0, 1, 0, 0, 0, 64, 0, 0, 0, 1, 0, 0, 0, 1, 0, 0, 0, 0, 0, 0, 0, 84, 0, 0, 0, 8, 0, 0, 0, 241, 174, 18, 104, 92, 126, 0, 0, 1, 0, 0, 0, 0, 0, 0, 0, 92, 0, 0, 0, 8, 0, 0, 0>> :> 41 @@
    <<0, 0, 1, 0, 0, 0, 0, 0, 194, 141, 1, 0, 1, 0, 0, 0, 64, 0, 0, 0, 1, 0, 0, 0, 1, 0, 0, 0, 0, 0, 0, 0, 84, 0, 0, 0, 8, 0, 0, 0, 241, 174, 18, 104, 92, 126, 0, 0, 1, 0, 0, 0, 1, 0, 0, 0, 92, 0, 0, 0, 9, 0, 0, 0>> :> 43 @@
    <<0, 0, 1, 0, 0, 0, 0, 0, 194, 141, 1, 0, 1, 0, 0, 0, 64, 0, 0, 0, 1, 0, 0, 0, 1, 0, 0, 0, 1, 0, 0, 0, 0, 0, 0, 0, 9, 0, 0, 0, 241, 174, 18, 104, 92, 126, 0, 0, 1, 0, 0, 0, 0, 0, 0, 0, 9, 0, 0, 0, 8, 0, 0, 0>> :> 38 @@
    <<0, 0, 1, 0, 0, 0, 0, 0, 194, 141, 1, 0, 1, 0, 0, 0, 64, 0, 0, 0, 1, 0, 0, 0, 1, 0, 0, 0, 1, 0, 0, 0, 0, 0, 0, 0, 9, 0, 0, 0, 241, 174, 18, 104, 92, 126, 0, 0, 1, 0, 0, 0, 1, 0, 0, 0, 9, 0, 0, 0, 9, 0, 0, 0>> :> 38 @@
    <<0, 0, 1, 0, 0, 0, 0, 0, 194, 141, 1, 0, 1, 0, 0, 0, 64, 0, 0, 0, 1, 0, 0, 0, 1, 0, 0, 0, 1, 0, 0, 0, 8, 0, 0, 0, 9, 0, 0, 0, 241, 174, 18, 104, 92, 126, 0, 0, 1, 0, 0, 0, 0, 0, 0, 0, 0, 0, 0, 0, 8, 0, 0, 0>> :> 41 @@
    <<0, 0, 1, 0, 0, 0, 0, 0, 194, 141, 1, 0, 1, 0, 0, 0, 64, 0, 0, 0, 1, 0, 0, 0, 1, 0, 0, 0, 1, 0, 0, 0, 9, 0, 0, 0, 9, 0, 0, 0, 241, 174, 18, 104, 92, 126, 0, 0, 1, 0, 0, 0, 1, 0, 0, 0, 0, 0, 0, 0, 9, 0, 0, 0>> :> 37 @@
    <<0, 0, 1, 0, 0, 0, 0, 0, 194, 141, 1, 0, 1, 0, 0, 0, 64, 0, 0, 0, 1, 0, 0, 0, 1, 0, 0, 0, 1, 0, 0, 0, 84, 0, 0, 0, 9, 0, 0, 0, 241, 174, 18, 104, 92, 126, 0, 0, 1, 0, 0, 0, 0, 0, 0, 0, 93, 0, 0, 0, 8, 0, 0, 0>> :> 44 @@
    <<0, 0, 1, 0, 0, 0, 0, 0, 194, 141, 1, 0, 1, 0, 0, 0, 64, 0, 0, 0, 1, 0, 0, 0, 1, 0, 0, 0, 1, 0, 0, 0, 84, 0, 0, 0, 9, 0, 0, 0, 241, 174, 18, 104, 92, 126, 0, 0, 1, 0, 0, 0, 1, 0, 0, 0, 93, 0, 0, 0, 9, 0, 0, 0>> :> 39 @@
    <<0, 0, 1, 0, 0, 0, 0, 0, 194, 141, 1, 0, 1, 0, 0, 0, 64, 0, 0, 0, 1, 0, 0, 0, 1, 0, 0, 0, 1, 0, 0, 0, 92, 0, 0, 0, 9, 0, 0, 0, 241, 174, 18, 104, 92, 126, 0, 0, 1, 0, 0, 0, 0, 0, 0, 0, 101, 0, 0, 0, 8, 0, 0, 0>> :> 44

\* Lengths zlib.compress(data, 9) can return: the measured one, and for any
\* other input the 8-byte stream of the empty input or a length between
\* the shortest one-literal stream and the longest stream
\* zlib guarantees (compressBound: stored blocks cost a few bytes for every
\* 16 KiB of input, so the overhead grows with the input).
ZlibBound(n) == n + (n \div 4096) + (n \div 16384) + (n \div 33554432) + 13

ZlibLens(data) ==
    IF data \in DOMAIN ZlibMeasured THEN {ZlibMeasured[data]}
    ELSE IF Len(data) = 0 THEN {8}
    ELSE 9..ZlibBound(Len(data))

\* The stream zlib.compress returns for src when it occupies n bytes.
ZlibStream(src, n) == [src |-> src, len |-> n]

\* The bytes of a stream, as file cells <<kind, source, position>>.
StreamCells(z) == [k \in 1..z.len |-> <<"z", z.src, k>>]

RawCells(bs) == [k \in 1..Len(bs) |-> <<"raw", <<>>, bs[k]>>]

\* len(compressed_index) + pad_len: ECB keeps the padded plaintext length.
PaddedLen(n) == n + ((BlockLen - (n % BlockLen)) % BlockLen)

\* cipher.encrypt(zlib.compress(index_data) + padding), zlib returning zl bytes
EncryptIndex(index_data, zl) == [idx |-> index_data, len |-> PaddedLen(zl)]

CipherCells(enc) == [k \in 1..enc.len |-> <<"enc", <<>>, k>>]

\* ------------------------------------------------------------ inputs
OutName == <<111>>
ReservedName == <<116, 97, 110, 117, 107, 105, 46, 108, 115, 116>>
Paths == {<<97>>, <<65>>, <<115, 92, 98>>, <<111>>}
Contents == {<<>>, <<104>>}
Seeds == {<<0, 0, 0, 0>>, <<255, 255, 255, 255>>}
RootKinds == {"dir", "missing", "file"}

FileRecs == [rel_path : Paths, content : Contents]

Trees ==
    UNION {{t \in [1..n -> FileRecs] :
              \A i, j \in 1..n : i # j => t[i].rel_path # t[j].rel_path}
           : n \in 0..MaxFiles}

VARIABLES root, fs, arc_seed, entries, buckets, index_size, base_offset,
          encrypted_index, out, pc, hp, hq, hseed, hres

vars == <<root, fs, arc_seed, entries, buckets, index_size, base_offset,
          encrypted_index, out, pc, hp, hq, hseed, hres>>

archiveVars == <<root, fs, arc_seed, entries, buckets, index_size,
                 base_offset, encrypted_index, out>>
hashVars == <<hp, hq, hseed, hres>>

NoStream == ZlibStream(<<>>, 0)
NoCipher == [idx |-> <<>>, len |-> 0]
NoFile == [exists |-> FALSE, bytes |-> <<>>]
\* an output file left by an earlier run
StaleFile == [exists |-> TRUE, bytes |-> <<<<"raw", <<>>, 84>>>>]

\* ---------------------------------------------------- Entry Collector
\* path.name: the part after the last forward slash
RECURSIVE PathName(_)
PathName(p) ==
    IF Len(p) = 0 THEN <<>>
    ELSE IF p[Len(p)] = SlashCode THEN <<>>
    ELSE PathName(SubSeq(p, 1, Len(p) - 1)) \o <<p[Len(p)]>>

IsCandidate(f) == PathName(f.rel_path) # OutName /\ PathName(f.rel_path) # ReservedName

NewEntry(f) ==
    [rel_path |-> f.rel_path, full_hash |-> <<>>, bucket_hash |-> -1,
     entry_hash_low |-> <<>>, is_packed |-> TRUE, unpacked_size |-> 0,
     size |-> 0, offset |-> 0, data |-> NoStream]

\* rglob('*') of a root that is missing or no directory yields nothing
Listing == IF root = "dir" THEN fs ELSE <<>>

collect_files == SelectSeq(Listing, IsCandidate)

CollectFiles ==
    /\ pc = "start"
    /\ entries' = [i \in 1..Len(collect_files) |-> NewEntry(collect_files[i])]
    /\ pc' = "collected"
    /\ UNCHANGED <<root, fs, arc_seed, buckets, index_size, base_offset,
                   encrypted_index, out, hashVars>>

\* ------------------------------------------------- Compressor, Hasher
\* The content open(entry['path'], 'rb').read() returns
FileContent(rel_path) == (CHOOSE f \in {fs[i] : i \in DOMAIN fs} : f.rel_path = rel_path).content

\* zlib is a function of its input: one length for each content
ZlibChoices ==
    {zl \in [Contents -> UNION {ZlibLens(c) : c \in Contents}] :
        \A c \in Contents : zl[c] \in ZlibLens(c)}

\* (full_hash >> 48) & 0xFFFF
BucketOf(full_hash) == full_hash[7] + 256 * full_hash[8]

\* full_hash & 0xFFFFFFFFFFFF
LowOf(full_hash) == SubSeq(full_hash, 1, 6)

RECURSIVE SumSizes(_, _, _)
SumSizes(es, zl, n) ==
    IF n = 0 THEN 0
    ELSE SumSizes(es, zl, n - 1) + zl[FileContent(es[n].rel_path)]

\* one pass of the loop body of process_files, for the entry at position i
ProcessEntry(es, zl, i) ==
    LET data == FileContent(es[i].rel_path)
        compressed_data == ZlibStream(data, zl[data])
        full_hash == hash_from_ascii_string(es[i].rel_path, arc_seed)
    IN [es[i] EXCEPT !.unpacked_size = Len(data),
                     !.size = compressed_data.len,
                     !.offset = SumSizes(es, zl, i - 1),
                     !.data = compressed_data,
                     !.full_hash = full_hash,
                     !.bucket_hash = BucketOf(full_hash),
                     !.entry_hash_low = LowOf(full_hash)]

\* the entries after the loop ran over the first n of them
process_files(es, zl, n) ==
    [i \in 1..Len(es) |-> IF i <= n THEN ProcessEntry(es, zl, i) ELSE es[i]]

ProcessFiles ==
    /\ pc = "collected"
    /\ \E zl \in ZlibChoices : entries' = process_files(entries, zl, Len(entries))
    /\ pc' = "processed"
    /\ UNCHANGED <<root, fs, arc_seed, buckets, index_size, base_offset,
                   encrypted_index, out, hashVars>>

\* open() or read() of the entry at position k raises: the run ends there
ReadFailure ==
    /\ pc = "collected"
    /\ \E k \in 1..Len(entries) : \E zl \in ZlibChoices :
           entries' = process_files(entries, zl, k - 1)
    /\ pc' = "read_failed"
    /\ UNCHANGED <<root, fs, arc_seed, buckets, index_size, base_offset,
                   encrypted_index, out, hashVars>>

\* ------------------------------------------------ Bucket Index Builder
BucketKeys(es) == {es[i].bucket_hash : i \in DOMAIN es}

\* sorted(bucket_dict.items()): the keys ascending
RECURSIVE KeysDescending(_)
KeysDescending(S) ==
    IF S = {} THEN <<>>
    ELSE LET m == CHOOSE x \in S : \A y \in S : x >= y
         IN <<m>> \o KeysDescending(S \ {m})

RECURSIVE SortedKeys(_)
SortedKeys(S) ==
    IF S = {} THEN <<>>
    ELSE LET m == CHOOSE x \in S : \A y \in S : x <= y
         IN <<m>> \o SortedKeys(S \ {m})

\* len(entries_in_bucket)
BucketLen(es, bh) == Cardinality({i \in DOMAIN es : es[i].bucket_hash = bh})

NextIndexKept(current_index, n) == current_index
NextIndex(current_index, n) == current_index + n

RECURSIVE BucketsFrom(_, _, _)
BucketsFrom(es, keys, current_index) ==
    IF Len(keys) = 0 THEN <<>>
    ELSE <<[Hash |-> Head(keys), Count |-> BucketLen(es, Head(keys)),
            Index |-> current_index]>>
         \o BucketsFrom(es, Tail(keys),
                        NextIndex(current_index, BucketLen(es, Head(keys))))

\* the sort key (e['bucket_hash'], e['entry_hash_low']), compared as tuples
KeyLess(a, b) ==
    \/ a.bucket_hash < b.bucket_hash
    \/ a.bucket_hash = b.bucket_hash /\ LimbsLess(a.entry_hash_low, b.entry_hash_low)

\* list.sort is stable: e goes before the first element of a greater key
InsertUnstable(sorted, e) ==
    LET before == {i \in 1..Len(sorted) : KeyLess(sorted[i], e)}
        n == Cardinality(before)
    IN SubSeq(sorted, 1, n) \o <<e>> \o SubSeq(sorted, n + 1, Len(sorted))
InsertStable(sorted, e) ==
    LET before == {i \in 1..Len(sorted) : ~KeyLess(e, sorted[i])}
        n == Cardinality(before)
    IN SubSeq(sorted, 1, n) \o <<e>> \o SubSeq(sorted, n + 1, Len(sorted))

RECURSIVE SortEntries(_)
SortEntries(es) ==
    IF Len(es) = 0 THEN <<>>
    ELSE InsertStable(SortEntries(SubSeq(es, 1, Len(es) - 1)), es[Len(es)])

build_buckets(es) == BucketsFrom(es, SortedKeys(BucketKeys(es)), 0)

BuildBuckets ==
    /\ pc = "processed"
    /\ buckets' = build_buckets(entries)
    /\ entries' = SortEntries(entries)
    /\ pc' = "bucketed"
    /\ UNCHANGED <<root, fs, arc_seed, index_size, base_offset,
                   encrypted_index, out, hashVars>>

\* ------------------------------------------------------ build_index
\* struct.pack('<HHI', Hash, Count, Index)
PackBucket(b) == PackFields(<<<<b.Hash, 2>>, <<b.Count, 2>>, <<b.Index, 4>>>>)

\* struct.pack('<QIIII', hash_low, is_packed, unpacked_size, offset, size)
\* hash_low is below 2^48 and always fits its 'Q' field
PackEntry(e) ==
    LET rest == PackFields(<<<<IF e.is_packed THEN 1 ELSE 0, 4>>,
                             <<e.unpacked_size, 4>>, <<e.offset, 4>>,
                             <<e.size, 4>>>>)
    IN IF rest = StructError THEN StructError
       ELSE e.entry_hash_low \o <<0, 0>> \o rest

\* The index bytes, or struct.error when a record cannot be packed
build_index(bs, es) ==
    LET recs == [i \in 1..Len(bs) |-> PackBucket(bs[i])]
                \o [i \in 1..Len(es) |-> PackEntry(es[i])]
    IN IF \E i \in 1..Len(recs) : recs[i] = StructError THEN StructError
       ELSE Flatten(recs)

\* ---------------------------------------------------- Archive Writer
\* Phase A: the index with the provisional offsets, measured; a
\* struct.error of build_index ends the run
PhaseA ==
    /\ pc = "bucketed"
    /\ IF build_index(buckets, entries) = StructError
       THEN /\ pc' = "pack_failed"
            /\ UNCHANGED <<encrypted_index, index_size, base_offset>>
       ELSE /\ \E zl \in ZlibLens(build_index(buckets, entries)) :
                   /\ encrypted_index' =
                          EncryptIndex(build_index(buckets, entries), zl)
                   /\ index_size' = encrypted_index'.len
            /\ base_offset' = HeaderLen + index_size'
            /\ pc' = "measured"
    /\ UNCHANGED <<root, fs, arc_seed, entries, buckets, out, hashVars>>

FirstOffset(base) == base

RECURSIVE OffsetAt(_, _, _)
OffsetAt(es, base, i) ==
    IF i = 1 THEN FirstOffset(base)
    ELSE OffsetAt(es, base, i - 1) + es[i - 1].data.len

\* e['offset'] = current_offset; current_offset += len(e['data'])
update_offsets(es, base) ==
    [i \in 1..Len(es) |-> [es[i] EXCEPT !.offset = OffsetAt(es, base, i)]]

UpdateOffsets ==
    /\ pc = "measured"
    /\ entries' = update_offsets(entries, base_offset)
    /\ pc' = "placed"
    /\ UNCHANGED <<root, fs, arc_seed, buckets, index_size, base_offset,
                   encrypted_index, out, hashVars>>

\* Phase B: the index with the final offsets; zlib returns the length it
\* returned in Phase A when the index bytes are the same; a struct.error
\* of build_index ends the run
PhaseB ==
    /\ pc = "placed"
    /\ IF build_index(buckets, entries) = StructError
       THEN /\ pc' = "pack_failed"
            /\ UNCHANGED encrypted_index
       ELSE /\ \E zl \in ZlibLens(build_index(buckets, entries)) :
                   /\ build_index(buckets, entries) = encrypted_index.idx
                          => PaddedLen(zl) = encrypted_index.len
                   /\ encrypted_index' =
                          EncryptIndex(build_index(buckets, entries), zl)
            /\ pc' = "encoded"
    /\ UNCHANGED <<root, fs, arc_seed, entries, buckets, index_size,
                   base_offset, out, hashVars>>

OpenOutputFirst ==
    /\ pc = "start"
    /\ out # [exists |-> TRUE, bytes |-> <<>>]
    /\ out' = [exists |-> TRUE, bytes |-> <<>>]
    /\ UNCHANGED <<root, fs, arc_seed, entries, buckets, index_size,
                   base_offset, encrypted_index, pc, hashVars>>

\* open(self.output_file, 'wb') creates or truncates the file
OpenOutput ==
    /\ pc = "encoded"
    /\ out' = [exists |-> TRUE, bytes |-> <<>>]
    /\ pc' = "opened"
    /\ UNCHANGED <<root, fs, arc_seed, entries, buckets, index_size,
                   base_offset, encrypted_index, hashVars>>

Signature == <<84, 65, 114, 99>>
Version == <<49, 46, 49, 48, 0>>

\* struct.pack('<IIII', len(entries), len(buckets), index_size, arc_seed);
\* arc_seed is drawn from 0..0xFFFFFFFF and always fits
HeaderFields ==
    LET counts == PackFields(<<<<Len(entries), 4>>, <<Len(buckets), 4>>,
                               <<index_size, 4>>>>)
    IN IF counts = StructError THEN StructError ELSE counts \o arc_seed

HeaderBytes == Signature \o Version \o HeaderFields

\* f.seek(0x2C): the bytes skipped read as zero
SeekPad(written) == [k \in 1..(HeaderLen - written) |-> 0]

PayloadCells(es) == Flatten([i \in 1..Len(es) |-> StreamCells(es[i].data)])

\* A struct.error of the header fields leaves the file with the signature
\* and the version, which the with block flushes on its way out
WriteOutput ==
    /\ pc = "opened"
    /\ IF HeaderFields = StructError
       THEN /\ out' = [exists |-> TRUE, bytes |-> RawCells(Signature \o Version)]
            /\ pc' = "pack_failed"
       ELSE /\ out' = [exists |-> TRUE,
                       bytes |-> RawCells(HeaderBytes \o SeekPad(Len(HeaderBytes)))
                                 \o CipherCells(encrypted_index)
                                 \o PayloadCells(entries)]
            /\ pc' = "done"
    /\ UNCHANGED <<root, fs, arc_seed, entries, buckets, index_size,
                   base_offset, encrypted_index, hashVars>>

\* -------------------------------------------------------------- runs
Init ==
    /\ root \in RootKinds
    /\ fs \in IF root = "dir" THEN Trees ELSE {<<>>}
    /\ arc_seed \in Seeds
    /\ entries = <<>>
    /\ buckets = <<>>
    /\ index_size = 0
    /\ base_offset = 0
    /\ encrypted_index = NoCipher
    /\ out \in {NoFile, StaleFile}
    /\ pc = "start"
    /\ hp = <<>> /\ hq = <<>> /\ hseed = <<0, 0, 0, 0>> /\ hres = <<>>

Next ==
    \/ CollectFiles
    \/ ProcessFiles
    \/ ReadFailure
    \/ BuildBuckets
    \/ PhaseA
    \/ UpdateOffsets
    \/ PhaseB
    \/ OpenOutput
    \/ WriteOutput

Spec == Init /\ [][Next]_vars

\* --------------------------------------------- Path Hasher, on its own
PathChars == {97, 65, BackslashCode, SlashCode, 223, 83}
PathStrings == UNION {[1..n -> PathChars] : n \in 0..MaxPathLen}
HashSeeds == {<<0, 0, 0, 0>>, <<1, 0, 0, 0>>, <<255, 255, 255, 255>>}

HashInit ==
    /\ hp \in PathStrings
    /\ hq \in PathStrings
    /\ hseed \in HashSeeds
    /\ hres = <<>>
    /\ pc = "hash_start"
    /\ root = "dir" /\ fs = <<>> /\ arc_seed = <<0, 0, 0, 0>>
    /\ entries = <<>> /\ buckets = <<>> /\ index_size = 0 /\ base_offset = 0
    /\ encrypted_index = NoCipher /\ out = NoFile

HashPaths ==
    /\ pc = "hash_start"
    /\ hres' = <<hash_from_ascii_string(hp, hseed), hash_from_ascii_string(hq, hseed)>>
    /\ pc' = "hashed"
    /\ UNCHANGED <<archiveVars, hp, hq, hseed>>

HashNext == HashPaths

HashSpec == HashInit /\ [][HashNext]_vars

\* ------------------------------------------------------------ reading
Bucketed == pc \in {"bucketed", "measured", "placed", "encoded", "opened", "done"}
Placed == pc \in {"placed", "encoded", "opened", "done"}

\* an unsigned 32-bit little-endian field at byte position pos (0-based)
U32At(bs, pos) ==
    bs[pos + 1] + 256 * bs[pos + 2] + 65536 * bs[pos + 3] + 16777216 * bs[pos + 4]

\* the record of entry i in a serialized index, 0-based byte position
EntryRecAt(i) == BucketRecLen * Len(buckets) + EntryRecLen * (i - 1)
SerializedOffset(idx, i) == U32At(idx, EntryRecAt(i) + 16)
SerializedSize(idx, i) == U32At(idx, EntryRecAt(i) + 20)
SerializedHashLow(idx, i) == SubSeq(idx, EntryRecAt(i) + 1, EntryRecAt(i) + 6)

\* the bytes [from, from + n) of the output file
FileRange(from, n) == SubSeq(out.bytes, from + 1, from + n)

\* cells that are a whole zlib stream inflate to its source
IsWholeStream(cells) ==
    /\ Len(cells) > 0
    /\ \A k \in 1..Len(cells) : cells[k] = <<"z", cells[1][2], k>>
Inflated(cells) == cells[1][2]

\* where the payload really starts in the file: after the last index byte
PayloadStart == HeaderLen + encrypted_index.len

CollectedPos(rel_path) ==
    CHOOSE i \in 1..Len(collect_files) : collect_files[i].rel_path = rel_path

\* ------------------------------------------------------------- claims

\* C1: once write_archive has completed, for every entry the bytes of the
\* output file at [data_offset, data_offset + packed_size), both read from
\* the serialized final index, are that entry's compressed bytes, and they
\* inflate to the content of the entry's file.
C1_PayloadAtSerializedOffsets ==
    pc = "done" =>
        \A i \in 1..Len(entries) :
            LET off == SerializedOffset(encrypted_index.idx, i)
                sz == SerializedSize(encrypted_index.idx, i)
            IN /\ off + sz <= Len(out.bytes)
               /\ FileRange(off, sz) = StreamCells(entries[i].data)
               /\ IsWholeStream(FileRange(off, sz))
               /\ Inflated(FileRange(off, sz)) = FileContent(entries[i].rel_path)

\* C2: the index_size of the header, measured in Phase A, is the length of
\* the encrypted index built in Phase B and written at 0x2C, so the payload
\* starts at base_offset = 44 + index_size.
C2_IndexSizeStable ==
    pc \in {"encoded", "opened", "done"} =>
        /\ index_size = encrypted_index.len
        /\ base_offset = PayloadStart

\* C3: in the final entry table every data_offset is at least the base
\* offset (header length plus the length of the encrypted index in the
\* file), the first is the base offset, each next one is the previous
\* data_offset plus packed_size, and the ranges
\* [data_offset, data_offset + packed_size) of the file tile the payload
\* region from its start to the end of the file, each holding its entry's
\* compressed bytes in entry-table order.
C3_OffsetsTile ==
    pc = "done" =>
        LET off(i) == SerializedOffset(encrypted_index.idx, i)
            sz(i) == SerializedSize(encrypted_index.idx, i)
            n == Len(entries)
        IN /\ \A i \in 1..n : off(i) >= PayloadStart
           /\ n > 0 => off(1) = PayloadStart
           /\ \A i \in 2..n : off(i) = off(i - 1) + sz(i - 1)
           /\ \A i \in 1..n :
                  /\ sz(i) = entries[i].data.len
                  /\ off(i) + sz(i) <= Len(out.bytes)
                  /\ FileRange(off(i), sz(i)) = StreamCells(entries[i].data)
           /\ Len(out.bytes) = IF n = 0 THEN PayloadStart ELSE off(n) + sz(n)

\* C4: when the encrypted index of the final pass has another length than
\* the one measured in the provisional pass, the run ends in a reported
\* error and never goes on to open and write the archive.
C4_MismatchReported ==
    [][(pc = "encoded" /\ encrypted_index.len # index_size) => pc' # "opened"]_vars

\* C5: when the input root is missing or no directory, packing fails before
\* the output file is created; an existing root with no files gives an
\* empty archive.
C5_MissingRootFails ==
    /\ root # "dir" => (out \in {NoFile, StaleFile} /\ pc \notin {"opened", "done"})
    /\ (root = "dir" /\ fs = <<>> /\ pc = "done") =>
           (out.exists /\ entries = <<>> /\ buckets = <<>>
            /\ Len(out.bytes) = PayloadStart)

\* the unsigned 32-bit header field at byte position pos of the output file
HeaderField(pos) == U32At([k \in 1..HeaderLen |-> out.bytes[k][3]], pos)

RECURSIVE SumCounts(_)
SumCounts(bs) == IF Len(bs) = 0 THEN 0 ELSE Head(bs).Count + SumCounts(Tail(bs))

\* C6: after build_buckets the bucket keys are strictly ascending, the first
\* start_index is 0, each start_index plus count is the next start_index,
\* and the counts sum to the number of entries, the header's entry_count.
C6_BucketTable ==
    Bucketed =>
        /\ \A i \in 1..(Len(buckets) - 1) :
               /\ buckets[i].Hash < buckets[i + 1].Hash
               /\ buckets[i].Index + buckets[i].Count = buckets[i + 1].Index
        /\ Len(buckets) > 0 => buckets[1].Index = 0
        /\ SumCounts(buckets) = Len(entries)
        /\ pc = "done" =>
               /\ HeaderField(9) = Len(entries)
               /\ HeaderField(13) = Len(buckets)

C6_Witness ==
    /\ pc = "done"
    /\ Len(buckets) = 2
    /\ buckets[2].Index = 1
    /\ HeaderField(9) = 2

\* C7: after build_buckets the entry table is a reordering of the collected
\* entries that ascends by (bucket_key, residual_hash), entries equal on
\* both keys staying in collection order; the indexes of both passes list
\* the entries in this order.
C7_EntryOrder ==
    Bucketed =>
        /\ Len(entries) = Len(collect_files)
        /\ {entries[i].rel_path : i \in DOMAIN entries}
               = {collect_files[i].rel_path : i \in DOMAIN collect_files}
        /\ \A i \in 1..(Len(entries) - 1) :
               \/ entries[i].bucket_hash < entries[i + 1].bucket_hash
               \/ /\ entries[i].bucket_hash = entries[i + 1].bucket_hash
                  /\ ~LimbsLess(entries[i + 1].entry_hash_low, entries[i].entry_hash_low)
        /\ \A i, j \in 1..Len(entries) :
               (/\ i < j
                /\ entries[i].bucket_hash = entries[j].bucket_hash
                /\ entries[i].entry_hash_low = entries[j].entry_hash_low)
               => CollectedPos(entries[i].rel_path) < CollectedPos(entries[j].rel_path)
        /\ pc \in {"measured", "placed", "encoded", "opened", "done"} =>
               \A i \in 1..Len(entries) :
                   SerializedHashLow(encrypted_index.idx, i) = entries[i].entry_hash_low

C7_Witness ==
    /\ pc = "done"
    /\ Len(entries) = 2
    /\ entries[1].full_hash = entries[2].full_hash
    /\ entries[1].rel_path # entries[2].rel_path
    /\ entries[1].offset < entries[2].offset

\* a path with every backslash read as a forward slash and every character
\* upper-cased
UpperCased(c) ==
    IF c \in DOMAIN UpperSpecial THEN UpperSpecial[c]
    ELSE LET rs == {r \in UpperRuns : r[1] <= c /\ c <= r[2] /\ (c - r[1]) % r[3] = 0}
         IN IF rs = {} THEN <<c>> ELSE <<c + (CHOOSE r \in rs : TRUE)[4]>>

RECURSIVE Normalized(_)
Normalized(p) ==
    IF Len(p) = 0 THEN <<>>
    ELSE UpperCased(IF Head(p) = 92 THEN 47 ELSE Head(p)) \o Normalized(Tail(p))

\* the fold of the claim over characters already normalized, from the last
\* character back
RECURSIVE FoldedHash(_, _)
FoldedHash(s, seed) ==
    IF Len(s) = 0 THEN Zero64
    ELSE HashStep(FoldedHash(SubSeq(s, 1, Len(s) - 1), seed), s[Len(s)], seed)

\* C8: two paths that are equal after backslashes become forward slashes
\* and every character is upper-cased have the same hash under every seed;
\* the hash is the fold of (code_point + 0x19919 * accumulator + seed)
\* mod 2^64 over the normalized characters from 0, so the empty path
\* hashes to 0.
C8_HashNormalizes ==
    pc = "hashed" =>
        /\ Normalized(hp) = Normalized(hq) => hres[1] = hres[2]
        /\ hres[1] = FoldedHash(Normalized(hp), hseed)
        /\ hp = <<>> => hres[1] = Zero64

C8_Witness ==
    /\ pc = "hashed"
    /\ Len(hp) = 2 /\ Len(hq) = 2
    /\ hp[1] = 97 /\ hq[1] = 65
    /\ hp[2] = 92 /\ hq[2] = 47
    /\ hseed = <<255, 255, 255, 255>>
    /\ hres[1] = hres[2]
    /\ hres[1] # Zero64

\* C9: the entries at positions start_index .. start_index + count - 1 of
\* the sorted entry table are exactly the entries whose bucket_key, bits
\* 48-63 of full_hash, is the bucket's key, in ascending residual_hash;
\* two entries colliding in bucket_key share one bucket of count 2.
C9_BucketRanges ==
    Bucketed =>
        /\ \A i \in 1..Len(entries) :
               /\ entries[i].full_hash = hash_from_ascii_string(entries[i].rel_path, arc_seed)
               /\ entries[i].bucket_hash
                      = entries[i].full_hash[7] + 256 * entries[i].full_hash[8]
               /\ entries[i].entry_hash_low = SubSeq(entries[i].full_hash, 1, 6)
               /\ \E b \in 1..Len(buckets) : buckets[b].Hash = entries[i].bucket_hash
        /\ \A b \in 1..Len(buckets) :
               /\ buckets[b].Count >= 1
               /\ {i \in 1..Len(entries) : entries[i].bucket_hash = buckets[b].Hash}
                      = (buckets[b].Index + 1)..(buckets[b].Index + buckets[b].Count)
               /\ \A i \in (buckets[b].Index + 1)..(buckets[b].Index + buckets[b].Count - 1) :
                      ~LimbsLess(entries[i + 1].entry_hash_low, entries[i].entry_hash_low)

C9_Witness ==
    /\ Bucketed
    /\ Len(buckets) = 1
    /\ buckets[1].Count = 2
    /\ LimbsLess(entries[1].entry_hash_low, entries[2].entry_hash_low)
    /\ entries[1].rel_path = collect_files[2].rel_path

\* C10: the output file is opened (created or truncated) and written only
\* after every candidate file was read and compressed and both index passes
\* finished; a run in which reading a file fails leaves it as it was.
C10_OutputOpenedLast ==
    [][out' # out =>
           /\ pc \in {"encoded", "opened"}
           /\ Len(entries) = Len(collect_files)
           /\ \A i \in 1..Len(entries) :
                  /\ entries[i].data = ZlibStream(FileContent(entries[i].rel_path),
                                                 entries[i].size)
                  /\ entries[i].size \in ZlibLens(FileContent(entries[i].rel_path))
           /\ index_size > 0
           /\ encrypted_index.idx = build_index(buckets, entries)]_vars

C10_Witness ==
    /\ pc = "read_failed"
    /\ Len(entries) = 2
    /\ entries[1].data # NoStream
    /\ entries[2].data = NoStream
    /\ out = StaleFile

====
